---- MODULE Spec2Model ----
(***************************************************************************)
(* fbanlz: calendar grid engine (calendar.py) and the logon-density        *)
(* stylesheet (fbanlz.py).                                                 *)
(*                                                                         *)
(* Dates are <<year, month, day>> triples, as datetime.date holds them.    *)
(* Exceptions are modelled as the "err" field of a call's outcome; the     *)
(* "value" field is what the call returned (for a generator: the items it  *)
(* yielded before it stopped or raised).                                   *)
(***************************************************************************)
EXTENDS Integers, Sequences, FiniteSets, TLC

VARIABLES
    firstweekday,   \* Calendar._firstweekday, the raw value given to the setter
    year, month,    \* arguments of the month-level calls
    width,          \* the width argument of the year-level calls
    lastcall,       \* the last Calendar call: [op, raw, err, value]
    year1, year2,   \* arguments of leapdays
    leapresult,     \* the last isleap or leapdays call: [op, value]
    dates,          \* getdatecounts: the list of event timestamps
    pc,             \* getdatecounts: index of the next timestamp of the loop
    data,           \* CountingDict.data: insertion-ordered <<key, count>> pairs
    got,            \* outcome of the last CountingDict.__getitem__: [key, value]
    styles,         \* the last getcellstyles call: [done, err, value, text]
    daycell         \* the last formatday call: [done, date, day, cell]

vars == <<firstweekday, year, month, width, lastcall, year1, year2, leapresult,
          dates, pc, data, got, styles, daycell>>

(***************************************************************************)
(* Bounds of the model.                                                    *)
(***************************************************************************)
YearSpan == 2       \* ordinary years 2023 .. 2022 + YearSpan
FwdSpan == 1        \* setfirstweekday arguments -FwdSpan .. 6 + FwdSpan
WidthSpan == 2      \* width arguments -WidthSpan .. 12 + WidthSpan
LeapSpan == 3       \* leapdays: year1 within LeapSpan of 0, 1900 and 2000
MaxGap == 26        \* leapdays: year2 - year1 in 0 .. MaxGap (and 100, 400)
MaxEvents == 3      \* getdatecounts: at most MaxEvents timestamps
MaxKeys == 2        \* getcellstyles: at most MaxKeys dates in the count map
MaxCount == 4       \* getcellstyles: counts 1 .. MaxCount (and those near 143)

(***************************************************************************)
(* calendar.py: constants                                                  *)
(***************************************************************************)
JANUARY == 1
FEBRUARY == 2
MINYEAR == 1
MAXYEAR == 9999
mdays == <<31, 28, 31, 30, 31, 30, 31, 31, 30, 31, 30, 31>>  \* mdays[1..12]
cssclasses == <<"mon", "tue", "wed", "thu", "fri", "sat", "sun">>
day_abbr == <<"Mon", "Tue", "Wed", "Thu", "Fri", "Sat", "Sun">>

NoErr == ""
Ok(v) == [err |-> NoErr, value |-> v]
Raise(e) == [err |-> e, value |-> <<>>]

(***************************************************************************)
(* isleap, leapdays                                                        *)
(***************************************************************************)
isleap(y) == y % 4 = 0 /\ (y % 100 # 0 \/ y % 400 = 0)

\* leapdays counting the years of (y1, y2] instead of [y1, y2)
leapdays_closed(y1, y2) ==
    (y2 \div 4 - y1 \div 4) - (y2 \div 100 - y1 \div 100) + (y2 \div 400 - y1 \div 400)

leapdays(y1, y2) ==
    LET a == y1 - 1
        b == y2 - 1
    IN  (b \div 4 - a \div 4) - (b \div 100 - a \div 100) + (b \div 400 - a \div 400)

(***************************************************************************)
(* datetime.date as calendar.py uses it: construction, weekday(), and      *)
(* adding or subtracting a timedelta of whole days (through the proleptic  *)
(* Gregorian ordinal, 0001-01-01 being day 1).                             *)
(***************************************************************************)
DaysInMonth(y, m) == IF m = 2 /\ isleap(y) THEN 29 ELSE mdays[m]

\* days of the year before the first of month m
DaysBeforeMonth(y, m) ==
    <<0, 31, 59, 90, 120, 151, 181, 212, 243, 273, 304, 334>>[m]
        + (IF m > 2 /\ isleap(y) THEN 1 ELSE 0)

DaysBeforeYear(y) ==
    LET p == y - 1 IN p * 365 + p \div 4 - p \div 100 + p \div 400

DateValid(y, m, d) ==
    /\ y \in MINYEAR..MAXYEAR
    /\ m \in 1..12
    /\ d \in 1..DaysInMonth(y, m)

ToOrdinal(date) ==
    DaysBeforeYear(date[1]) + DaysBeforeMonth(date[1], date[2]) + date[3]

MaxOrdinal == ToOrdinal(<<MAXYEAR, 12, 31>>)

FromOrdinal(n) ==
    LET n0 == n - 1
        n400 == n0 \div 146097
        r400 == n0 % 146097
        n100 == r400 \div 36524
        r100 == r400 % 36524
        n4 == r100 \div 1461
        r4 == r100 % 1461
        n1 == r4 \div 365
        y0 == n400 * 400 + n100 * 100 + n4 * 4 + n1 + 1
    IN  IF n1 = 4 \/ n100 = 4
        THEN <<y0 - 1, 12, 31>>
        ELSE LET doy == n - DaysBeforeYear(y0)
                 m == CHOOSE k \in 1..12 :
                        /\ DaysBeforeMonth(y0, k) < doy
                        /\ doy <= DaysBeforeMonth(y0, k) + DaysInMonth(y0, k)
             IN  <<y0, m, doy - DaysBeforeMonth(y0, m)>>

\* date + timedelta(days=n): the date, or OverflowError outside MINYEAR..MAXYEAR
DateAdd(date, n) ==
    LET o == ToOrdinal(date) + n
    IN  IF o \in 1..MaxOrdinal THEN Ok(FromOrdinal(o)) ELSE Raise("OverflowError")

DateWeekday(date) == (ToOrdinal(date) + 6) % 7

\* datetime.date(y, m, d)
MkDate(y, m, d) ==
    IF DateValid(y, m, d) THEN Ok(<<y, m, d>>) ELSE Raise("ValueError")

(***************************************************************************)
(* An exception raised by a call ends the caller too, unless the caller    *)
(* catches it: Then(r, F) is F of r's value, or r's exception.             *)
(***************************************************************************)
Then(r, F(_)) == IF r.err # NoErr THEN r ELSE F(r.value)

\* the first exception of a list of outcomes, or the list of their values
All(rs) ==
    IF \E i \in 1..Len(rs) : rs[i].err # NoErr
    THEN rs[CHOOSE i \in 1..Len(rs) :
              /\ rs[i].err # NoErr
              /\ \A j \in 1..(i - 1) : rs[j].err = NoErr]
    ELSE Ok([i \in 1..Len(rs) |-> rs[i].value])

(***************************************************************************)
(* weekday, monthrange                                                     *)
(***************************************************************************)
weekday(y, m, d) == Then(MkDate(y, m, d), LAMBDA dt : Ok(DateWeekday(dt)))

\* monthrange without the 29th of February
monthrange_noleap(y, m) ==
    IF ~(1 <= m /\ m <= 12)
    THEN Raise("IllegalMonthError")
    ELSE Then(weekday(y, m, 1), LAMBDA day1 : Ok(<<day1, mdays[m]>>))

monthrange(y, m) ==
    IF ~(1 <= m /\ m <= 12)
    THEN Raise("IllegalMonthError")
    ELSE Then(weekday(y, m, 1), LAMBDA day1 :
            Ok(<<day1, mdays[m] + (IF m = FEBRUARY /\ isleap(y) THEN 1 ELSE 0)>>))

(***************************************************************************)
(* Python helpers: slicing a list into chunks, enumerate(), str() and      *)
(* {:02d} of an int                                                        *)
(***************************************************************************)
Min(a, b) == IF a < b THEN a ELSE b
Max(a, b) == IF a > b THEN a ELSE b

Slice(s, lo, hi) == [k \in 1..(Min(hi, Len(s)) - lo + 1) |-> s[lo + k - 1]]

\* [s[i : i + w] for i in range(0, len(s), w)]: range() refuses a step of 0 and
\* is empty for a negative step
\* chunking that keeps the full rows only
Chunks_droplast(s, w) ==
    IF w = 0 THEN Raise("ValueError")
    ELSE IF w < 0 \/ Len(s) = 0 THEN Ok(<<>>)
    ELSE Ok([r \in 1..(Len(s) \div w) |-> Slice(s, (r - 1) * w + 1, r * w)])

Chunks(s, w) ==
    IF w = 0 THEN Raise("ValueError")
    ELSE IF w < 0 \/ Len(s) = 0 THEN Ok(<<>>)
    ELSE Ok([r \in 1..((Len(s) + w - 1) \div w) |->
                Slice(s, (r - 1) * w + 1, r * w)])

Digit == <<"0", "1", "2", "3", "4", "5", "6", "7", "8", "9">>

RECURSIVE ToStr(_)
ToStr(n) == IF n < 10 THEN Digit[n + 1] ELSE ToStr(n \div 10) \o Digit[(n % 10) + 1]

Pad2(n) == IF n < 10 THEN "0" \o ToStr(n) ELSE ToStr(n)

Zeros(n) == [k \in 1..n |-> 0]
Range1(n) == [k \in 1..n |-> k]

(***************************************************************************)
(* class Calendar.  raw is self._firstweekday.                             *)
(***************************************************************************)
getfirstweekday(raw) == raw % 7

iterweekdays(raw) ==
    [k \in 1..7 |-> (getfirstweekday(raw) + k - 1) % 7]

\* the while loop of itermonthdates: MonthDatesLoop is the yield of date and the
\* try, MonthDatesNext the except and the test that ends the loop
RECURSIVE MonthDatesLoop(_, _, _, _)
RECURSIVE MonthDatesNext(_, _, _, _)
MonthDatesLoop(raw, m, date, yielded) ==
    MonthDatesNext(raw, m, DateAdd(date, 1), Append(yielded, date))

MonthDatesNext(raw, m, next, yielded) ==
    IF next.err # NoErr
    THEN yielded                                   \* except OverflowError: break
    ELSE IF next.value[2] # m /\ DateWeekday(next.value) = getfirstweekday(raw)
    THEN yielded
    ELSE MonthDatesLoop(raw, m, next.value, yielded)

\* itermonthdates stepping forward, not back, to the first weekday
itermonthdates_forward(raw, y, m) ==
    Then(MkDate(y, m, 1), LAMBDA date :
    Then(DateAdd(date, (DateWeekday(date) - getfirstweekday(raw)) % 7),
         LAMBDA start : Ok(MonthDatesLoop(raw, m, start, <<>>))))

itermonthdates(raw, y, m) ==
    Then(MkDate(y, m, 1), LAMBDA date :
    Then(DateAdd(date, -((DateWeekday(date) - getfirstweekday(raw)) % 7)),
         LAMBDA start : Ok(MonthDatesLoop(raw, m, start, <<>>))))

\* the three yield from of itermonthdays
MonthDays(fwd, day1, ndays) ==
    Zeros((day1 - fwd) % 7) \o Range1(ndays) \o Zeros((fwd - day1 - ndays) % 7)

itermonthdays(raw, y, m) ==
    Then(monthrange(y, m), LAMBDA mr :
        Ok(MonthDays(getfirstweekday(raw), mr[1], mr[2])))

\* (day, weekday % 7) for weekday, day in enumerate(days, fwd)
Enumerate7(days, fwd) == [k \in 1..Len(days) |-> <<days[k], (fwd + k - 1) % 7>>]

itermonthdays2(raw, y, m) ==
    Then(itermonthdays(raw, y, m), LAMBDA days :
        Ok(Enumerate7(days, getfirstweekday(raw))))

monthdatescalendar(raw, y, m) ==
    Then(itermonthdates(raw, y, m), LAMBDA ds : Chunks(ds, 7))

monthdays2calendar(raw, y, m) ==
    Then(itermonthdays2(raw, y, m), LAMBDA ds : Chunks(ds, 7))

monthdayscalendar(raw, y, m) ==
    Then(itermonthdays(raw, y, m), LAMBDA ds : Chunks(ds, 7))

(***************************************************************************)
(* The inputs of the model, and the outcome of every month-level call on   *)
(* them, evaluated once.                                                   *)
(***************************************************************************)
Years == {MINYEAR, 1900, 2000, MAXYEAR} \cup (2023..(2022 + YearSpan))
Months == 0..13
FwdArgs == (-FwdSpan)..(6 + FwdSpan)
Widths == (-WidthSpan)..(12 + WidthSpan)

MonthOps == {"monthrange", "iterweekdays", "itermonthdates", "itermonthdays",
             "itermonthdays2", "monthdatescalendar", "monthdays2calendar",
             "monthdayscalendar"}

MonthCall(op, raw, y, m) ==
    CASE op = "monthrange" -> monthrange(y, m)
      [] op = "iterweekdays" -> Ok(iterweekdays(raw))
      [] op = "itermonthdates" -> itermonthdates(raw, y, m)
      [] op = "itermonthdays" -> itermonthdays(raw, y, m)
      [] op = "itermonthdays2" -> itermonthdays2(raw, y, m)
      [] op = "monthdatescalendar" -> monthdatescalendar(raw, y, m)
      [] op = "monthdays2calendar" -> monthdays2calendar(raw, y, m)
      [] op = "monthdayscalendar" -> monthdayscalendar(raw, y, m)

MonthOutcome ==
    [op \in MonthOps, raw \in FwdArgs, y \in Years, m \in Months |->
        MonthCall(op, raw, y, m)]

\* [f(year, i) for i in range(JANUARY, JANUARY + 12)]
MonthsOfYear(op, raw, y) ==
    [i \in 1..12 |-> MonthOutcome[op, raw, y, JANUARY + i - 1]]

\* months[i : i + width] for i in range(0, len(months), width)
yeardatescalendar(raw, y, w) ==
    Then(All(MonthsOfYear("monthdatescalendar", raw, y)), LAMBDA months :
        Chunks(months, w))

yeardays2calendar(raw, y, w) ==
    Then(All(MonthsOfYear("monthdays2calendar", raw, y)), LAMBDA months :
        Chunks(months, w))

yeardayscalendar(raw, y, w) ==
    Then(All(MonthsOfYear("monthdayscalendar", raw, y)), LAMBDA months :
        Chunks(months, w))

(***************************************************************************)
(* class HTMLCalendar.  Markup is modelled as the element tree the         *)
(* returned string spells out: an element is a record of its tag, its      *)
(* attributes and its text or children; an attribute the string does not   *)
(* carry is a field the record does not have.                              *)
(***************************************************************************)
month_name == <<"January", "February", "March", "April", "May", "June", "July",
                "August", "September", "October", "November", "December">>

formatday(day, wd, theyear, themonth) ==
    IF day = 0
    THEN [tag |-> "td", class |-> "day", text |-> "&nbsp;"]
    ELSE [tag |-> "td", class |-> "day " \o cssclasses[wd + 1],
          id |-> "_" \o ToStr(theyear) \o Pad2(themonth) \o Pad2(day),
          text |-> ToStr(day)]

formatweek(theweek, theyear, themonth) ==
    [tag |-> "tr",
     children |-> [k \in 1..Len(theweek) |->
                     formatday(theweek[k][1], theweek[k][2], theyear, themonth)]]

formatweekday(day) ==
    [tag |-> "th", class |-> cssclasses[day + 1], text |-> day_abbr[day + 1]]

formatweekheader(raw) ==
    [tag |-> "tr", children |-> [k \in 1..7 |-> formatweekday(iterweekdays(raw)[k])]]

formatmonthname(theyear, themonth, withyear) ==
    [tag |-> "tr",
     children |-> <<[tag |-> "th", colspan |-> 7, class |-> "month",
                     text |-> IF withyear
                              THEN month_name[themonth] \o " " \o ToStr(theyear)
                              ELSE month_name[themonth]]>>]

formatmonth(raw, theyear, themonth, withyear) ==
    Then(MonthOutcome["monthdays2calendar", raw, theyear, themonth], LAMBDA weeks :
        Ok([tag |-> "table", class |-> "month",
            id |-> ToStr(theyear) \o Pad2(themonth),
            head |-> <<formatmonthname(theyear, themonth, withyear),
                       formatweekheader(raw)>>,
            children |-> [k \in 1..Len(weeks) |->
                            formatweek(weeks[k], theyear, themonth)]]))

\* formatmonth(theyear, month, withyear=False) on the model's inputs
MonthTable ==
    [raw \in FwdArgs, y \in Years, m \in 1..12 |-> formatmonth(raw, y, m, FALSE)]

\* the months of the rows of formatyear: range(i, min(i + width, 13)) for
\* i in range(JANUARY, JANUARY + 12, width), width already clamped
YearRows(w) ==
    [r \in 1..((12 + w - 1) \div w) |->
        [k \in 1..(Min(JANUARY + (r - 1) * w + w, 13) - (JANUARY + (r - 1) * w)) |->
            JANUARY + (r - 1) * w + k - 1]]

\* the table of tables, of the rows of months and their formatted months
YearTable(theyear, wd, rows, tables) ==
    [tag |-> "table", class |-> "year", id |-> ToStr(theyear),
     head |-> [tag |-> "th", colspan |-> wd, class |-> "year", text |-> ToStr(theyear)],
     children |-> [r \in 1..Len(rows) |->
        [tag |-> "tr",
         children |-> [k \in 1..Len(rows[r]) |->
            [tag |-> "td", children |-> <<tables[rows[r][k]]>>]]]]]

formatyear(raw, theyear, w) ==
    Then(All([m \in 1..12 |-> MonthTable[raw, theyear, m]]), LAMBDA tables :
        Ok(YearTable(theyear, Max(w, 1), YearRows(Max(w, 1)), tables)))

(***************************************************************************)
(* The calendar as a state machine: one Calendar object, its setter, and   *)
(* one action per public call.                                             *)
(***************************************************************************)
Called(op, r) ==
    [op |-> op, raw |-> firstweekday, err |-> r.err, value |-> r.value]

NoCall == [op |-> "none", raw |-> 0, err |-> NoErr, value |-> <<>>]

IdleCalendar ==
    /\ firstweekday = 0 /\ year = 2024 /\ month = 1 /\ width = 3 /\ lastcall = NoCall
IdleLeap == year1 = 0 /\ year2 = 0 /\ leapresult = [op |-> "none", value |-> 0]
IdleCounts ==
    /\ dates = <<>> /\ pc = 1 /\ data = <<>> /\ got = [key |-> <<>>, value |-> 0]
NoStyles == [done |-> FALSE, err |-> NoErr, value |-> <<>>, text |-> ""]
NoCell == [done |-> FALSE, date |-> <<>>, day |-> 0, cell |-> <<>>]
IdleStyles == styles = NoStyles /\ daycell = NoCell

calendarVars == <<firstweekday, year, month, width, lastcall>>
leapVars == <<year1, year2, leapresult>>
countVars == <<dates, pc, data, got>>
styleVars == <<styles, daycell>>

\* Calendar.__init__(firstweekday): any integer, 0 when left out
InitCalendar ==
    /\ firstweekday \in FwdArgs
    /\ year \in Years
    /\ month \in Months
    /\ width = 3
    /\ lastcall = NoCall
    /\ IdleLeap /\ IdleCounts /\ IdleStyles

Setfirstweekday ==
    /\ \E n \in FwdArgs : firstweekday' = n
    /\ UNCHANGED <<year, month, width, lastcall, leapVars, countVars, styleVars>>

Return(op, r) ==
    /\ lastcall' = Called(op, r)
    /\ UNCHANGED <<firstweekday, year, month, width, leapVars, countVars, styleVars>>

CallMonth(op) == Return(op, MonthOutcome[op, firstweekday, year, month])

CallMonthrange == CallMonth("monthrange")
CallIterweekdays == CallMonth("iterweekdays")
CallItermonthdates == CallMonth("itermonthdates")
CallItermonthdays == CallMonth("itermonthdays")
CallItermonthdays2 == CallMonth("itermonthdays2")
CallMonthdatescalendar == CallMonth("monthdatescalendar")
CallMonthdays2calendar == CallMonth("monthdays2calendar")
CallMonthdayscalendar == CallMonth("monthdayscalendar")

NextCalendar ==
    \/ Setfirstweekday
    \/ CallMonthrange
    \/ CallIterweekdays
    \/ CallItermonthdates
    \/ CallItermonthdays
    \/ CallItermonthdays2
    \/ CallMonthdatescalendar
    \/ CallMonthdays2calendar
    \/ CallMonthdayscalendar

SpecCalendar == InitCalendar /\ [][NextCalendar]_vars

\* the year-level calls
InitYear ==
    /\ firstweekday \in FwdArgs
    /\ year \in Years
    /\ month = 1
    /\ width \in Widths
    /\ lastcall = NoCall
    /\ IdleLeap /\ IdleCounts /\ IdleStyles

YearOps == {"yeardatescalendar", "yeardays2calendar", "yeardayscalendar", "formatyear"}

YearCall(op, raw, y, w) ==
    CASE op = "yeardatescalendar" -> yeardatescalendar(raw, y, w)
      [] op = "yeardays2calendar" -> yeardays2calendar(raw, y, w)
      [] op = "yeardayscalendar" -> yeardayscalendar(raw, y, w)
      [] op = "formatyear" -> formatyear(raw, y, w)

\* the outcome of every year-level call on the model's inputs, evaluated once
YearOutcome ==
    [op \in YearOps, raw \in FwdArgs, y \in Years, w \in Widths |->
        YearCall(op, raw, y, w)]

CallYear(op) == Return(op, YearOutcome[op, firstweekday, year, width])

CallYeardatescalendar == CallYear("yeardatescalendar")
CallYeardays2calendar == CallYear("yeardays2calendar")
CallYeardayscalendar == CallYear("yeardayscalendar")
CallFormatyear == CallYear("formatyear")

NextYear ==
    \/ CallYeardatescalendar
    \/ CallYeardays2calendar
    \/ CallYeardayscalendar
    \/ CallFormatyear

SpecYear == InitYear /\ [][NextYear]_vars

(***************************************************************************)
(* isleap and leapdays as calls                                            *)
(***************************************************************************)
LeapYear1s ==
    UNION {(c - LeapSpan)..(c + LeapSpan) : c \in {0, 1900, 2000}}
Gaps == (0..MaxGap) \cup {100, 400}

InitLeap ==
    /\ year1 \in LeapYear1s
    /\ \E g \in Gaps : year2 = year1 + g          \* leapdays assumes year1 <= year2
    /\ leapresult = [op |-> "none", value |-> 0]
    /\ IdleCalendar /\ IdleCounts /\ IdleStyles

CallIsleap ==
    /\ leapresult' = [op |-> "isleap", value |-> isleap(year1)]
    /\ UNCHANGED <<year1, year2, calendarVars, countVars, styleVars>>

CallLeapdays ==
    /\ leapresult' = [op |-> "leapdays", value |-> leapdays(year1, year2)]
    /\ UNCHANGED <<year1, year2, calendarVars, countVars, styleVars>>

NextLeap == CallIsleap \/ CallLeapdays

SpecLeap == InitLeap /\ [][NextLeap]_vars

(***************************************************************************)
(* fbanlz.py: CountingDict.  data is the dict of the UserDict, a list of   *)
(* <<key, count>> pairs in insertion order, each key once.                 *)
(***************************************************************************)
Keys(d) == {d[i][1] : i \in 1..Len(d)}

\* a __getitem__ that stores the default it returns, as a defaultdict does
getitem_storing(d, key) ==
    IF key \in Keys(d)
    THEN [value |-> d[CHOOSE i \in 1..Len(d) : d[i][1] = key][2], data |-> d]
    ELSE [value |-> 0, data |-> Append(d, <<key, 0>>)]

\* CountingDict.__getitem__: the value returned and the dict it leaves; the
\* KeyError of a missing key is caught and 0 returned
getitem(d, key) ==
    IF key \in Keys(d)
    THEN [value |-> d[CHOOSE i \in 1..Len(d) : d[i][1] = key][2], data |-> d]
    ELSE [value |-> 0, data |-> d]

\* UserDict.__setitem__: self.data[key] = item
setitem(d, key, item) ==
    IF key \in Keys(d)
    THEN [i \in 1..Len(d) |-> IF d[i][1] = key THEN <<key, item>> ELSE d[i]]
    ELSE Append(d, <<key, item>>)

\* CountingDict.add: self[key] += 1
add(d, key) == setitem(getitem(d, key).data, key, getitem(d, key).value + 1)

(***************************************************************************)
(* getdatecounts: one step of the loop per timestamp.  A timestamp is a    *)
(* datetime <<year, month, day, hour, minute>>.                            *)
(***************************************************************************)
Stamps == {<<2024, 1, 5, 8, 0>>, <<2024, 1, 5, 21, 30>>, <<2024, 1, 6, 8, 0>>,
           <<2023, 1, 5, 8, 0>>}
DayOf(stamp) == <<stamp[1], stamp[2], stamp[3]>>
LookupKeys == {DayOf(t) : t \in Stamps} \cup {<<2024, 2, 1>>}

RECURSIVE SeqsUpTo(_, _)
SeqsUpTo(S, n) ==
    IF n = 0 THEN {<<>>}
    ELSE SeqsUpTo(S, n - 1) \cup
         {Append(q, x) : q \in {p \in SeqsUpTo(S, n - 1) : Len(p) = n - 1}, x \in S}

InitCounts ==
    /\ dates \in SeqsUpTo(Stamps, MaxEvents)
    /\ pc = 1
    /\ data = <<>>                                 \* counts = CountingDict()
    /\ got = [key |-> <<>>, value |-> 0]
    /\ IdleCalendar /\ IdleLeap /\ IdleStyles

\* for date in dates: counts.add((date.year, date.month, date.day))
LoopAdd ==
    /\ pc <= Len(dates)
    /\ data' = add(data, DayOf(dates[pc]))
    /\ pc' = pc + 1
    /\ UNCHANGED <<dates, got, calendarVars, leapVars, styleVars>>

\* counts[key], at any time
Lookup ==
    /\ \E key \in LookupKeys :
         /\ got' = [key |-> key, value |-> getitem(data, key).value]
         /\ data' = getitem(data, key).data
    /\ UNCHANGED <<dates, pc, calendarVars, leapVars, styleVars>>

NextCounts == LoopAdd \/ Lookup

SpecCounts == InitCounts /\ [][NextCounts]_vars

(***************************************************************************)
(* getcellstyles and StyleData                                             *)
(***************************************************************************)
DARKEST == 143

HexDigit == <<"0", "1", "2", "3", "4", "5", "6", "7", "8", "9",
              "a", "b", "c", "d", "e", "f">>

\* hex(n)[2:]
RECURSIVE HexNat(_)
HexNat(n) ==
    IF n < 16 THEN HexDigit[n + 1] ELSE HexNat(n \div 16) \o HexDigit[(n % 16) + 1]
Hex2(n) == IF n < 0 THEN "x" \o HexNat(-n) ELSE HexNat(n)

RECURSIVE MaxCountOf(_)
MaxCountOf(d) ==
    IF Len(d) = 1 THEN d[1][2] ELSE Max(d[Len(d)][2], MaxCountOf(SubSeq(d, 1, Len(d) - 1)))

RECURSIVE MinCountOf(_)
MinCountOf(d) ==
    IF Len(d) = 1 THEN d[1][2] ELSE Min(d[Len(d)][2], MinCountOf(SubSeq(d, 1, Len(d) - 1)))

\* an id without the {:02d} of month and day
StyleOf_unpadded(date, count, step) ==
    [id |-> "_" \o ToStr(date[1]) \o ToStr(date[2]) \o ToStr(date[3]),
     bgcolor |-> Hex2(255 - step * count) \o Hex2(255 - step * count)
                    \o Hex2(255 - step * count)]

\* StyleData(id, bgcolor) of one item of the dict
StyleOf(date, count, step) ==
    [id |-> "_" \o ToStr(date[1]) \o Pad2(date[2]) \o Pad2(date[3]),
     bgcolor |-> Hex2(255 - step * count) \o Hex2(255 - step * count)
                    \o Hex2(255 - step * count)]

\* StyleData.__str__
StyleStr(style) == "#" \o style.id \o " { background-color: #" \o style.bgcolor \o "; }"

RECURSIVE JoinLines(_)
JoinLines(ss) ==
    IF Len(ss) = 0 THEN ""
    ELSE IF Len(ss) = 1 THEN ss[1]
    ELSE JoinLines(SubSeq(ss, 1, Len(ss) - 1)) \o "\n" \o ss[Len(ss)]

\* the loop of getcellstyles (its print() writes to the terminal only)
StylesOf(d, step) == [i \in 1..Len(d) |-> StyleOf(d[i][1], d[i][2], step)]

\* "\n".join(str(style) for style in styles), the value returned; the list
\* styles is kept beside it
StyleSheet(ss) ==
    [styles |-> ss, text |-> JoinLines([i \in 1..Len(ss) |-> StyleStr(ss[i])])]

\* the step taken from the smallest count, not the largest
getcellstyles_min(d) ==
    IF Len(d) = 0 THEN Raise("ValueError")
    ELSE IF MinCountOf(d) = 0 THEN Raise("ZeroDivisionError")
    ELSE Ok(StyleSheet(StylesOf(d, DARKEST \div MinCountOf(d))))

getcellstyles(d) ==
    IF Len(d) = 0 THEN Raise("ValueError")         \* max() of an empty sequence
    ELSE IF MaxCountOf(d) = 0 THEN Raise("ZeroDivisionError")
    ELSE Ok(StyleSheet(StylesOf(d, DARKEST \div MaxCountOf(d))))

StyleDates == {<<2024, 1, 11>>, <<2024, 11, 1>>, <<999, 12, 31>>, <<1, 1, 1>>}
CountVals == (1..MaxCount) \cup {72, 143, 144}

\* the lists of at most n <<key, count>> pairs, each key once
RECURSIVE DictsUpTo(_)
DictsUpTo(n) ==
    IF n = 0 THEN {<<>>}
    ELSE DictsUpTo(n - 1) \cup
         {Append(d, <<k, c>>) : d \in {p \in DictsUpTo(n - 1) : Len(p) = n - 1},
                                k \in StyleDates, c \in CountVals}

InitStyles ==
    /\ data \in {d \in DictsUpTo(MaxKeys) : Cardinality(Keys(d)) = Len(d)}
    /\ dates = <<>> /\ pc = 1 /\ got = [key |-> <<>>, value |-> 0]
    /\ styles = NoStyles
    /\ daycell = NoCell
    /\ IdleCalendar /\ IdleLeap

Styled(r) ==
    IF r.err # NoErr
    THEN [done |-> TRUE, err |-> r.err, value |-> <<>>, text |-> ""]
    ELSE [done |-> TRUE, err |-> NoErr, value |-> r.value.styles, text |-> r.value.text]

CallGetcellstyles ==
    /\ styles' = Styled(getcellstyles(data))
    /\ UNCHANGED <<daycell, countVars, calendarVars, leapVars>>

\* formatday for a date of the dict, as formatweek calls it for the cells of
\* monthdays2calendar: the day of the month, or 0 in a cell outside the month
CallFormatday ==
    /\ \E i \in 1..Len(data), inside \in BOOLEAN :
         LET date == data[i][1]
             day == IF inside THEN date[3] ELSE 0
         IN  daycell' = [done |-> TRUE, date |-> date, day |-> day,
                         cell |-> formatday(day, DateWeekday(date), date[1], date[2])]
    /\ UNCHANGED <<styles, countVars, calendarVars, leapVars>>

NextStyles == CallGetcellstyles \/ CallFormatday

SpecStyles == InitStyles /\ [][NextStyles]_vars

(***************************************************************************)
(* What the claims speak of: the Gregorian calendar, stated apart from the *)
(* code's tables.                                                          *)
(***************************************************************************)
LeapYear(y) == y % 4 = 0 /\ (y % 100 # 0 \/ y % 400 = 0)

DayCount(y, m) ==
    IF m = 2 THEN (IF LeapYear(y) THEN 29 ELSE 28)
    ELSE IF m \in {4, 6, 9, 11} THEN 30 ELSE 31

DatesOfMonth(y, m) == {<<y, m, d>> : d \in 1..DayCount(y, m)}

Elems(s) == {s[i] : i \in 1..Len(s)}

InMonth(s, y, m) == {dt \in Elems(s) : dt[1] = y /\ dt[2] = m}

\* the rows of a grid of 7-cell rows, one after the other
Concat7(rows) ==
    [i \in 1..(7 * Len(rows)) |-> rows[((i - 1) \div 7) + 1][((i - 1) % 7) + 1]]

MonthTaking == {"monthrange", "itermonthdates", "itermonthdays", "itermonthdays2",
                "monthdatescalendar", "monthdays2calendar", "monthdayscalendar"}

\* C1: for every year, month in 1..12 and first-weekday setting in 0..6,
\* itermonthdates yields a whole number of weeks that starts on the first
\* weekday, advances one day per element and holds every date of the month
\* exactly once.
C1_WholeWeeks ==
    (lastcall.op = "itermonthdates" /\ month \in 1..12 /\ lastcall.raw \in 0..6) =>
        LET ds == lastcall.value
        IN  /\ lastcall.err = NoErr
            /\ Len(ds) > 0
            /\ Len(ds) % 7 = 0
            /\ DateWeekday(ds[1]) = lastcall.raw % 7
            /\ \A i \in 1..(Len(ds) - 1) : ToOrdinal(ds[i + 1]) = ToOrdinal(ds[i]) + 1
            /\ \A dt \in DatesOfMonth(year, month) :
                 Cardinality({i \in 1..Len(ds) : ds[i] = dt}) = 1

\* C2 as claimed: for a fixed (year, month), the set of dates itermonthdates
\* produces under setting 6 is the set it produced under setting 0.
C2_SameDates ==
    [][(/\ lastcall.op = "itermonthdates" /\ lastcall'.op = "itermonthdates"
        /\ lastcall.raw % 7 = 0 /\ lastcall'.raw % 7 = 6
        /\ month \in 1..12
        /\ lastcall.err = NoErr /\ lastcall'.err = NoErr)
       => Elems(lastcall'.value) = Elems(lastcall.value)]_vars

\* C2 as amended: changing the setting from 0 to 6 never changes which dates of
\* the requested month are produced (all of them, each time); the dates of the
\* adjacent months that complete the first and last week do change.  The one
\* call that produces nothing is January of year 1 under setting 6, which
\* raises OverflowError (C1).
C2_SameMonthDates ==
    [][(/\ lastcall.op = "itermonthdates" /\ lastcall'.op = "itermonthdates"
        /\ lastcall.raw % 7 = 0 /\ lastcall'.raw % 7 = 6
        /\ month \in 1..12)
       => /\ lastcall.err = NoErr
          /\ IF lastcall'.err = NoErr
             THEN /\ InMonth(lastcall'.value, year, month) = DatesOfMonth(year, month)
                  /\ InMonth(lastcall.value, year, month) = DatesOfMonth(year, month)
                  /\ Elems(lastcall'.value) # Elems(lastcall.value)
             ELSE /\ year = MINYEAR /\ month = 1
                  /\ lastcall'.err = "OverflowError"]_vars

C2_Witness ==
    /\ lastcall.op = "itermonthdates" /\ lastcall.raw = 6 /\ lastcall.err = NoErr
    /\ year = 2024 /\ month = 2
    /\ lastcall.value[1] = <<2024, 1, 28>>
    /\ InMonth(lastcall.value, 2024, 2) = DatesOfMonth(2024, 2)

\* C3: for every year, month in 1..12 and integer given to setfirstweekday (read
\* back mod 7), monthdayscalendar returns 4 to 6 rows of 7 entries: daysBefore
\* zeros, the day numbers 1..dayCount, daysAfter zeros; February 2024 under
\* setting 0 has 5 rows.
C3_MonthGrid ==
    (lastcall.op = "monthdayscalendar" /\ month \in 1..12) =>
        LET rows == lastcall.value
            fwd == lastcall.raw % 7
            first == DateWeekday(<<year, month, 1>>)
            n == DayCount(year, month)
        IN  /\ lastcall.err = NoErr
            /\ Len(rows) \in 4..6
            /\ \A r \in 1..Len(rows) : Len(rows[r]) = 7
            /\ Concat7(rows) = Zeros((first - fwd) % 7) \o Range1(n)
                                  \o Zeros((fwd - first - n) % 7)
            /\ (year = 2024 /\ month = 2 /\ fwd = 0) => Len(rows) = 5

C3_Witness ==
    /\ lastcall.op = "monthdayscalendar" /\ lastcall.raw = -1
    /\ year = 2024 /\ month = 2
    /\ Len(lastcall.value) = 5
    /\ lastcall.value[1] = <<0, 0, 0, 0, 1, 2, 3>>
    /\ lastcall.value[5] = <<25, 26, 27, 28, 29, 0, 0>>

\* C4: every entry point that takes a month fails with IllegalMonthError when
\* the month is outside 1..12.
C4_IllegalMonth ==
    (lastcall.op \in MonthTaking /\ month \notin 1..12) =>
        lastcall.err = "IllegalMonthError"

\* C10: for every year, month in 1..12 and first-weekday setting in 0..6,
\* itermonthdays2 and itermonthdates have the same length and agree position by
\* position: the weekday is that of the i-th date, the day is its day of the
\* month when it lies in the requested month and 0 otherwise; so each row of 7
\* cells is in iterweekdays() order.
C10_SameCells ==
    (lastcall.op = "itermonthdays2" /\ month \in 1..12 /\ lastcall.raw \in 0..6) =>
        LET cs == lastcall.value
            ds == itermonthdates(lastcall.raw, year, month)
        IN  /\ lastcall.err = NoErr
            /\ ds.err = NoErr
            /\ Len(cs) = Len(ds.value)
            /\ \A i \in 1..Len(cs) :
                 /\ cs[i][2] = DateWeekday(ds.value[i])
                 /\ cs[i][1] = IF ds.value[i][1] = year /\ ds.value[i][2] = month
                               THEN ds.value[i][3] ELSE 0
            /\ \A i \in 1..Len(cs) : cs[i][2] = iterweekdays(lastcall.raw)[((i - 1) % 7) + 1]

\* the month-level call whose grids a year-level call collects
MonthOpOf(op) ==
    CASE op = "yeardatescalendar" -> "monthdatescalendar"
      [] op = "yeardays2calendar" -> "monthdays2calendar"
      [] op = "yeardayscalendar" -> "monthdayscalendar"

YearGrids == {"yeardatescalendar", "yeardays2calendar", "yeardayscalendar"}

\* rows holds grid[1..12] in order, w to a row, the last row possibly shorter
ChunkedBy(rows, grid, w) ==
    /\ Len(rows) = (12 + w - 1) \div w
    /\ \A r \in 1..Len(rows) :
         /\ Len(rows[r]) = Min(w, 12 - (r - 1) * w)
         /\ \A k \in 1..Len(rows[r]) : rows[r][k] = grid[(r - 1) * w + k]

\* C5 as claimed: the year grid holds the month grids of months 1..12 in order,
\* monthsPerRow to a row, a monthsPerRow below 1 counting as 1.
C5_Clamped ==
    (/\ lastcall.op \in YearGrids
     /\ \A m \in 1..12 : MonthOutcome[MonthOpOf(lastcall.op), lastcall.raw, year, m].err = NoErr)
    => /\ lastcall.err = NoErr
       /\ ChunkedBy(lastcall.value,
                    [m \in 1..12 |->
                       MonthOutcome[MonthOpOf(lastcall.op), lastcall.raw, year, m].value],
                    Max(width, 1))

\* C5 as amended: for monthsPerRow >= 1 the year grid holds the month grids of
\* months 1..12 in order, monthsPerRow to a row, the last row possibly shorter;
\* yeardatescalendar, yeardays2calendar and yeardayscalendar do not clamp:
\* monthsPerRow = 0 raises ValueError and a negative monthsPerRow gives an empty
\* grid.  Only formatyear clamps a width below 1 up to 1 (12 rows of one month).
\* A month grid that raises (C1) ends the call with its exception.
C5_Chunked ==
    /\ lastcall.op \in YearGrids =>
         LET months == [m \in 1..12 |->
                          MonthOutcome[MonthOpOf(lastcall.op), lastcall.raw, year, m]]
         IN  IF \E m \in 1..12 : months[m].err # NoErr
             THEN /\ lastcall.err # NoErr
                  /\ \E m \in 1..12 : lastcall.err = months[m].err
             ELSE IF width >= 1
             THEN /\ lastcall.err = NoErr
                  /\ ChunkedBy(lastcall.value, [m \in 1..12 |-> months[m].value], width)
             ELSE IF width = 0
             THEN lastcall.err = "ValueError"
             ELSE lastcall.err = NoErr /\ lastcall.value = <<>>
    /\ lastcall.op = "formatyear" =>
         /\ lastcall.err = NoErr
         /\ lastcall.value.head.colspan = Max(width, 1)
         /\ ChunkedBy([r \in 1..Len(lastcall.value.children) |->
                         [k \in 1..Len(lastcall.value.children[r].children) |->
                            lastcall.value.children[r].children[k].children[1].id]],
                      [m \in 1..12 |-> ToStr(year) \o Pad2(m)],
                      Max(width, 1))
         /\ width < 1 => Len(lastcall.value.children) = 12

C5_Witness ==
    /\ lastcall.op = "yeardayscalendar" /\ lastcall.err = NoErr
    /\ width = 5 /\ year = 2024 /\ lastcall.raw = 0
    /\ Len(lastcall.value) = 3
    /\ Len(lastcall.value[3]) = 2
    /\ lastcall.value[3][2][1] = <<0, 0, 0, 0, 0, 0, 1>>

\* C7: for year1 <= year2, leapdays is the number of leap years y with
\* year1 <= y < year2, a leap year being one divisible by 4 and not by 100, or
\* divisible by 400, which is what isleap answers; leapdays(y, y) = 0 and
\* leapdays(2000, 2024) = 6.
C7_LeapCount ==
    /\ leapresult.op = "isleap" => leapresult.value = LeapYear(year1)
    /\ leapresult.op = "leapdays" =>
         /\ leapresult.value = Cardinality({y \in year1..(year2 - 1) : LeapYear(y)})
         /\ year1 = year2 => leapresult.value = 0
         /\ (year1 = 2000 /\ year2 = 2024) => leapresult.value = 6

C7_Witness ==
    /\ leapresult.op = "leapdays" /\ year1 = 2000 /\ year2 = 2024
    /\ leapresult.value = 6

Processed == {j \in 1..(pc - 1) : TRUE}
EventsOn(day) == {j \in Processed : DayOf(dates[j]) = day}

RECURSIVE SumCounts(_)
SumCounts(d) == IF Len(d) = 0 THEN 0 ELSE d[1][2] + SumCounts(Tail(d))

Bucketed ==
    /\ Cardinality(Keys(data)) = Len(data)
    /\ Keys(data) = {DayOf(dates[j]) : j \in Processed}
    /\ \A i \in 1..Len(data) :
         /\ data[i][2] = Cardinality(EventsOn(data[i][1]))
         /\ data[i][2] >= 1
    /\ SumCounts(data) = pc - 1

\* C9: after every step of bucketing, each key's count is the number of events
\* bucketed so far that fall on its day, every count is at least 1, the counts
\* sum to the number of events bucketed, and the keys are exactly the days with
\* an event; a lookup returns the stored count, or 0 for a day that is not a
\* key, and leaves keys and counts as they were.
C9_Bucketed ==
    [][/\ Bucketed'
       /\ got' # got =>
            /\ data' = data
            /\ got'.key \notin Keys(data) => got'.value = 0
            /\ got'.key \in Keys(data) => <<got'.key, got'.value>> \in Elems(data)]_vars

C9_Witness ==
    /\ Len(dates) = 3 /\ pc = 4
    /\ data = << <<(<<2024, 1, 5>>), 2>>, <<(<<2024, 1, 6>>), 1>> >>
    /\ got = [key |-> <<2024, 2, 1>>, value |-> 0]

\* hex(value)[2:] * 3 of a grey level; different levels have different texts
GreyText(v) == Hex2(v) \o Hex2(v) \o Hex2(v)

\* C6: for a non-empty map of counts that are all at least 1, getcellstyles
\* divides without error and gives every date the value 255 - step * count with
\* step = floor(143 / maxCount); the value lies in 0..255, never grows with the
\* count, is least for the dates with the maximum count, and is 112 for every
\* date when maxCount is 1.
C6_Shades ==
    (styles.done /\ Len(data) > 0) =>
        /\ styles.err = NoErr
        /\ Len(styles.value) = Len(data)
        /\ LET maxCount == MaxCountOf(data)
               value == [i \in 1..Len(data) |-> 255 - (143 \div maxCount) * data[i][2]]
           IN  \A i \in 1..Len(data) :
                 /\ value[i] \in 0..255
                 /\ styles.value[i].bgcolor = GreyText(value[i])
                 /\ maxCount = 1 => styles.value[i].bgcolor = GreyText(112)
                 /\ \A j \in 1..Len(data) :
                      /\ data[i][2] >= data[j][2] => value[i] <= value[j]
                      /\ data[i][2] = maxCount => value[i] <= value[j]

C6_Witness ==
    /\ styles.done /\ styles.err = NoErr
    /\ Len(data) = 2 /\ data[1][2] = 1 /\ data[2][2] = 3
    /\ styles.value[1].bgcolor = "d0d0d0"       \* 208
    /\ styles.value[2].bgcolor = "727272"       \* 114

Pad4(n) ==
    IF n < 10 THEN "000" \o ToStr(n)
    ELSE IF n < 100 THEN "00" \o ToStr(n)
    ELSE IF n < 1000 THEN "0" \o ToStr(n)
    ELSE ToStr(n)

StyleIdOf(date) ==
    styles.value[CHOOSE i \in 1..Len(data) : data[i][1] = date].id

SameIds ==
    /\ (styles.done /\ styles.err = NoErr) =>
         \A i, j \in 1..Len(data) : i # j => styles.value[i].id # styles.value[j].id
    /\ (styles.done /\ styles.err = NoErr /\ daycell.done /\ daycell.day # 0) =>
         /\ "id" \in DOMAIN daycell.cell
         /\ daycell.cell.id = StyleIdOf(daycell.date)
    /\ (daycell.done /\ daycell.day = 0) => "id" \notin DOMAIN daycell.cell

\* C8 as claimed: the id of a date's style rule is the id of its day cell, it is
\* the zero-padded yyyyMMdd form of the date, no two dates share an id, and a
\* placeholder cell has no id.
C8_PaddedIds ==
    /\ SameIds
    /\ (styles.done /\ styles.err = NoErr) =>
         \A i \in 1..Len(data) :
            styles.value[i].id =
               Pad4(data[i][1][1]) \o Pad2(data[i][1][2]) \o Pad2(data[i][1][3])

\* C8 as amended: the id of a date's style rule is the id of its day cell, it is
\* an underscore, the year in decimal without padding, and month and day padded
\* to two digits each; no two dates share an id, and a placeholder cell has no
\* id.
C8_UnderscoreIds ==
    /\ SameIds
    /\ (styles.done /\ styles.err = NoErr) =>
         \A i \in 1..Len(data) :
            styles.value[i].id =
               "_" \o ToStr(data[i][1][1]) \o Pad2(data[i][1][2]) \o Pad2(data[i][1][3])

C8_Witness ==
    /\ styles.done /\ styles.err = NoErr
    /\ Len(data) = 2 /\ data[1][1] = <<2024, 1, 11>> /\ data[2][1] = <<999, 12, 31>>
    /\ styles.value[1].id = "_20240111" /\ styles.value[2].id = "_9991231"
    /\ data[1][2] = 1 /\ data[2][2] = 3
    /\ styles.text = "#_20240111 { background-color: #d0d0d0; }\n"
                        \o "#_9991231 { background-color: #727272; }"
    /\ daycell.done /\ daycell.day = 31 /\ daycell.cell.id = "_9991231"


====
